---- MODULE Spec2Model ----
(***************************************************************************)
(* pure-frame: the formula cache with its dependency graph (compute,       *)
(* computeIfAbsent, defineFormula, deleteFormula, reset, deref) and the    *)
(* interceptor chain of the action dispatcher (defineReducer,              *)
(* dispatchSync, dispatchLater, dispatch, the standard interceptors).      *)
(* Source: src/pure-frame.js.                                              *)
(***************************************************************************)
EXTENDS Integers, Sequences, FiniteSets, TLC

(***************************************************************************)
(* Bounds of the model.                                                    *)
(***************************************************************************)
\* Largest number stored at a path of the root state.
MaxVal == 1
\* Largest number of defineFormula calls in one behaviour.
MaxDefine == 3
\* Largest number of deleteFormula calls in one behaviour.
MaxDelete == 1
\* Largest number of scheduled dispatches waiting for their timer.
MaxTimers == 2

(***************************************************************************)
(* Values.  Every JavaScript value of the model is a record [k, v]: k is   *)
(* the kind of the value and v a tuple of integers holding its content.    *)
(***************************************************************************)
Undefined == [k |-> "undefined", v |-> <<>>]
Null == [k |-> "null", v |-> <<>>]
Num(n) == [k |-> "number", v |-> <<n>>]
\* Immutable.Map({x, y}) and Immutable.Map({}).
StateMap(x, y) == [k |-> "Map", v |-> <<x, y>>]
EmptyMap == [k |-> "Map", v |-> <<>>]
\* A plain JavaScript array and the Immutable.List fromJS makes of it.
JsArray(s) == [k |-> "Array", v |-> s]
ImList(s) == [k |-> "List", v |-> s]

\* immutable's fromJS: plain arrays/objects become immutable collections,
\* everything else is returned as it is.
fromJS(o) == IF o.k = "Array" THEN ImList(o.v) ELSE o

\* A comparison by reference (===): two immutable collections built by
\* separate calls are never the same object.
is_identity(a, b) ==
    IF a.k \in {"Array", "Map", "List"} \/ b.k \in {"Array", "Map", "List"}
    THEN FALSE ELSE a = b

\* immutable's is: value equality of primitives and immutable collections;
\* a plain array is equal only to itself, and the arrays of the model are
\* freshly allocated by each formula invocation.
is(a, b) == IF a.k = "Array" \/ b.k = "Array" THEN FALSE ELSE a = b

isMap(o) == o.k = "Map"

\* state.getIn([path]) for the paths x (1) and y (2) of the root state.
getIn(state, i) ==
    IF state.k = "Map" /\ Len(state.v) >= i THEN Num(state.v[i]) ELSE Undefined

\* The root states an application hands to PureFrameRoot.
RootStates == {EmptyMap} \cup {StateMap(x, y) : x \in 0..MaxVal, y \in 0..MaxVal}

(***************************************************************************)
(* Formula functions.  A formula function is named by a tag; apply is the  *)
(* call formula(...params).                                                *)
(*   getx, gety   the closures of defineExtractor for the paths x and y    *)
(*   first        a => a                                                   *)
(*   eq           (a, b) => is(a, b) ? 1 : 0                               *)
(*   zero         () => 0                                                  *)
(*   observe      the view's formula: calls the setters with its           *)
(*                parameters and returns undefined                         *)
(*   failIfOne    a => { if (a === 1) throw new Error(); return a; }       *)
(*   wrapFirst    (a, c) => [a], a plain array ([] standing for            *)
(*                [undefined])                                             *)
(*   listFirst    (a, c) => List([a]), an Immutable.List                   *)
(* throws(fn, params) holds when the call throws instead of returning.     *)
(***************************************************************************)
throws(fn, params) == fn = "failIfOne" /\ params[1] = Num(1)

apply(fn, params) ==
    CASE fn = "getx" -> getIn(params[1], 1)
      [] fn = "gety" -> getIn(params[1], 2)
      [] fn = "first" -> params[1]
      [] fn = "eq" -> IF is(params[1], params[2]) THEN Num(1) ELSE Num(0)
      [] fn = "zero" -> Num(0)
      [] fn = "observe" -> Undefined
      [] fn = "failIfOne" -> params[1]
      [] fn = "wrapFirst" -> JsArray(params[1].v)
      [] fn = "listFirst" -> ImList(params[1].v)

(***************************************************************************)
(* State.                                                                  *)
(***************************************************************************)
VARIABLES
    snapshots,    \* id -> cached value; always holds the key "state"
    formulas,     \* id -> formula function
    upstreams,    \* dependencies.upstreams: id -> list of upstream ids
    downstreams,  \* dependencies.downstreams: id -> list of downstream ids
    reducers,     \* action id -> chain of stage functions
    performers,   \* effect kind -> performer
    fetchers,     \* data source id -> fetcher function
    timers,       \* pending setTimeout callbacks, in the order of the calls
    nDefine,      \* defineFormula calls so far
    nDelete,      \* deleteFormula calls so far
    late,         \* some defineFormula call named an id that had a cache entry
    last          \* record of the last operation (history variable)

vars == <<snapshots, formulas, upstreams, downstreams, reducers, performers,
          fetchers,
          timers, nDefine, nDelete, late, last>>

graphVars == <<formulas, upstreams, downstreams, nDefine, nDelete, late>>
dispatchVars == <<reducers, performers, fetchers, timers>>

(***************************************************************************)
(* compute / computeIfAbsent.  The operators thread a record m through     *)
(* the calls: m.snap is the cache and m.calls the list of the formula      *)
(* functions invoked so far, each with the parameters it received.         *)
(* m.thrown holds once a function has thrown: the exception unwinds every  *)
(* caller, so that no later statement of the operation runs.               *)
(***************************************************************************)
Throw(m) == [m EXCEPT !.thrown = TRUE]

RECURSIVE compute(_, _), computeIfAbsent(_, _), mapComputeIfAbsent(_, _, _)

\* A compute that recomputes its registered upstreams instead of reading
\* their cache entries.
RECURSIVE mapCompute(_, _, _)
mapCompute(m, ups, i) ==
    IF i > Len(ups) THEN [m |-> m, params |-> <<>>]
    ELSE LET head == IF ups[i] \in DOMAIN formulas
                     THEN compute(m, ups[i])
                     ELSE computeIfAbsent(m, ups[i])
             rest == mapCompute(head.m, ups, i + 1)
         IN [m |-> rest.m, params |-> <<head.v>> \o rest.params]

compute_eager(m, id) ==
    LET ups == IF id \in DOMAIN upstreams THEN upstreams[id] ELSE <<>>
        r == mapCompute(m, ups, 1)
    IN IF id \in DOMAIN formulas
       THEN [m |-> [r.m EXCEPT !.calls =
                        Append(@, [id |-> id, params |-> r.params])],
             v |-> apply(formulas[id], r.params)]
       ELSE [m |-> r.m, v |-> Null]

\* A compute that returns undefined when no function is registered.
compute_noNull(m, id) ==
    LET ups == IF id \in DOMAIN upstreams THEN upstreams[id] ELSE <<>>
        r == mapComputeIfAbsent(m, ups, 1)
    IN IF id \in DOMAIN formulas
       THEN [m |-> [r.m EXCEPT !.calls =
                        Append(@, [id |-> id, params |-> r.params])],
             v |-> apply(formulas[id], r.params)]
       ELSE [m |-> r.m, v |-> Undefined]

\* A computeIfAbsent that computes whether or not the id is cached.
computeIfAbsent_always(m, id) ==
    LET c == compute(m, id)
    IN [m |-> [c.m EXCEPT !.snap = (id :> fromJS(c.v)) @@ @],
        v |-> fromJS(c.v)]

\* A computeIfAbsent that detects a cycle: it returns null for an id whose
\* computation is in progress.
computeIfAbsent_guarded(m, id) ==
    IF id \notin DOMAIN m.snap
    THEN IF id \in m.stack
         THEN [m |-> m, v |-> Null]
         ELSE LET c == compute([m EXCEPT !.stack = @ \cup {id}], id)
              IN IF c.m.thrown THEN [m |-> c.m, v |-> Undefined]
                 ELSE [m |-> [c.m EXCEPT !.snap = (id :> fromJS(c.v)) @@ @,
                                         !.stack = m.stack],
                       v |-> fromJS(c.v)]
    ELSE [m |-> m, v |-> m.snap[id]]

\* upstreams.map(computeIfAbsent): left to right, from index i on.
mapComputeIfAbsent(m, ups, i) ==
    IF i > Len(ups) THEN [m |-> m, params |-> <<>>]
    ELSE LET head == computeIfAbsent(m, ups[i])
         IN IF head.m.thrown THEN [m |-> head.m, params |-> <<>>]
            ELSE LET rest == mapComputeIfAbsent(head.m, ups, i + 1)
                 IN [m |-> rest.m, params |-> <<head.v>> \o rest.params]

compute(m, id) ==
    LET ups == IF id \in DOMAIN upstreams THEN upstreams[id] ELSE <<>>
        r == mapComputeIfAbsent(m, ups, 1)
        called == [r.m EXCEPT !.calls =
                       Append(@, [id |-> id, params |-> r.params])]
    IN IF r.m.thrown THEN [m |-> r.m, v |-> Undefined]
       ELSE IF id \in DOMAIN formulas
       THEN IF throws(formulas[id], r.params)
            THEN [m |-> Throw(called), v |-> Undefined]
            ELSE [m |-> called, v |-> apply(formulas[id], r.params)]
       ELSE [m |-> r.m, v |-> Null]

\* m.stack holds the ids whose computeIfAbsent call is on the call stack.
\* A call for an id that has no cache entry and is on the stack repeats the
\* call it is nested in, with the same outcome: the recursion has no end and
\* the engine stops it with a RangeError when the call stack is exhausted
\* (m.overflow), which unwinds every caller.
computeIfAbsent(m, id) ==
    IF id \notin DOMAIN m.snap
    THEN IF id \in m.stack
         THEN [m |-> [Throw(m) EXCEPT !.overflow = TRUE], v |-> Undefined]
         ELSE LET c == compute([m EXCEPT !.stack = @ \cup {id}], id)
              IN IF c.m.thrown THEN [m |-> c.m, v |-> Undefined]
                 ELSE [m |-> [c.m EXCEPT !.snap = (id :> fromJS(c.v)) @@ @,
                                         !.stack = m.stack],
                       v |-> fromJS(c.v)]
    ELSE [m |-> m, v |-> m.snap[id]]

deref(m, id) == computeIfAbsent(m, id)

(***************************************************************************)
(* reset.                                                                  *)
(***************************************************************************)
SelectSeqIn(s, S) == SelectSeq(s, LAMBDA e : e \in S)

RECURSIVE reset(_, _, _), resetEach(_, _, _)

\* A reset that writes the cache entry and recomputes no downstream.
reset_shallow(m, id, newValue) ==
    LET origin == IF id \in DOMAIN m.snap THEN m.snap[id] ELSE Undefined
    IN IF ~is(origin, newValue)
       THEN [m EXCEPT !.snap = (id :> newValue) @@ @]
       ELSE m

\* A reset without the equality test: it always writes and propagates.
reset_noPrune(m, id, newValue) ==
    LET m1 == [m EXCEPT !.snap = (id :> newValue) @@ @]
        downs == IF id \in DOMAIN downstreams THEN downstreams[id] ELSE <<>>
    IN resetEach(m1, SelectSeqIn(downs, DOMAIN formulas), 1)

\* A reset that recomputes the downstreams before it writes the cache entry.
reset_writeAfter(m, id, newValue) ==
    LET origin == IF id \in DOMAIN m.snap THEN m.snap[id] ELSE Undefined
    IN IF ~is(origin, newValue)
       THEN LET downs == IF id \in DOMAIN downstreams
                         THEN downstreams[id] ELSE <<>>
                m1 == resetEach(m, SelectSeqIn(downs, DOMAIN formulas), 1)
            IN [m1 EXCEPT !.snap = (id :> newValue) @@ @]
       ELSE m

\* A reset that restores the cache it found when a downstream throws.
reset_rollback(m, id, newValue) ==
    LET origin == IF id \in DOMAIN m.snap THEN m.snap[id] ELSE Undefined
    IN IF ~is(origin, newValue)
       THEN LET m1 == [m EXCEPT !.snap = (id :> newValue) @@ @]
                downs == IF id \in DOMAIN downstreams
                         THEN downstreams[id] ELSE <<>>
                m2 == resetEach(m1, SelectSeqIn(downs, DOMAIN formulas), 1)
            IN IF m2.thrown THEN [m2 EXCEPT !.snap = m.snap] ELSE m2
       ELSE m

\* downstreams.forEach(downstream => reset(downstream, compute(downstream)))
resetEach(m, downs, i) ==
    IF i > Len(downs) \/ m.thrown THEN m
    ELSE LET c == compute(m, downs[i])
         IN IF c.m.thrown THEN c.m
            ELSE resetEach(reset(c.m, downs[i], c.v), downs, i + 1)

\* m.resets records every call of reset when it returns: the id, the cache
\* entry it found (origin; had tells whether there was one), the value it
\* was given, whether it wrote the entry and whether a formula function was
\* invoked during the call.
reset(m, id, newValue) ==
    LET origin == IF id \in DOMAIN m.snap THEN m.snap[id] ELSE Undefined
        returned(r, wrote) ==
            [r EXCEPT !.resets =
                Append(@, [id |-> id, had |-> id \in DOMAIN m.snap,
                           origin |-> origin, newValue |-> newValue,
                           wrote |-> wrote,
                           invoked |-> Len(r.calls) > Len(m.calls)])]
    IN IF ~is(origin, newValue)
       THEN LET m1 == [m EXCEPT !.snap = (id :> newValue) @@ @]
                downs == IF id \in DOMAIN downstreams
                         THEN downstreams[id] ELSE <<>>
            IN returned(resetEach(m1, SelectSeqIn(downs, DOMAIN formulas), 1),
                        TRUE)
       ELSE returned(m, FALSE)

(***************************************************************************)
(* defineFormula / deleteFormula, as functions of the registry             *)
(* g = [formulas, upstreams, downstreams].                                 *)
(***************************************************************************)
\* The push of id on the downstream list of each upstream, from index i on.
RECURSIVE pushDownstreams(_, _, _, _)
pushDownstreams(downs, ups, id, i) ==
    IF i > Len(ups) THEN downs
    ELSE LET u == ups[i]
             d0 == IF u \in DOMAIN downs THEN downs ELSE (u :> <<>>) @@ downs
         IN pushDownstreams([d0 EXCEPT ![u] = Append(@, id)], ups, id, i + 1)

\* A defineFormula that treats a redefinition as remove-then-add: it drops
\* the links of the previous registration before it adds the new ones.
defineFormula_removeThenAdd(g, id, ups, fn) ==
    [formulas |-> (id :> fn) @@ g.formulas,
     upstreams |-> (id :> ups) @@ g.upstreams,
     downstreams |->
        pushDownstreams([u \in DOMAIN g.downstreams |->
                            SelectSeq(g.downstreams[u], LAMBDA e : e # id)],
                        ups, id, 1)]

defineFormula(g, id, ups, fn) ==
    [formulas |-> (id :> fn) @@ g.formulas,
     upstreams |-> (id :> ups) @@ g.upstreams,
     downstreams |-> pushDownstreams(g.downstreams, ups, id, 1)]

\* Array.indexOf: the first index of e in s, 0 when there is none.
indexOf(s, e) ==
    IF \E i \in 1..Len(s) : s[i] = e
    THEN CHOOSE i \in 1..Len(s) : s[i] = e /\ \A j \in 1..(i - 1) : s[j] # e
    ELSE 0

\* Array.splice(index, 1).
splice1(s, index) ==
    [j \in 1..(Len(s) - 1) |-> IF j < index THEN s[j] ELSE s[j + 1]]

\* delete obj[key].
deleteKey(f, key) == [x \in DOMAIN f \ {key} |-> f[x]]

\* The loop of deleteFormula over the upstreams of id, from index i on.
RECURSIVE unlinkUpstreams(_, _, _, _)
unlinkUpstreams(downs, ups, id, i) ==
    IF i > Len(ups) THEN downs
    ELSE LET upstream == ups[i]
             index == indexOf(downs[upstream], upstream)
             d1 == IF index > 0
                   THEN [downs EXCEPT ![upstream] = splice1(@, index)]
                   ELSE downs
         IN unlinkUpstreams(d1, ups, id, i + 1)

deleteFormula(g, id) ==
    [formulas |-> deleteKey(g.formulas, id),
     upstreams |-> deleteKey(g.upstreams, id),
     downstreams |-> unlinkUpstreams(g.downstreams, g.upstreams[id], id, 1)]

(***************************************************************************)
(* Actions, contexts and effects.                                          *)
(*   action   [id, p]: the action [id, p]                                  *)
(*   effects  [state, fx]: state is Undefined when the reducer returned no *)
(*            state key, fx is the list of the entries [kind, ...params]   *)
(*   context  [snapshots, effects, action]                                 *)
(***************************************************************************)
Action(id, p) == [id |-> id, p |-> p]

\* The delay of a dispatchLater call.
Delay == 1
Fx(kind, action, ms) == [kind |-> kind, action |-> action, ms |-> ms]
NoEffects == [state |-> Undefined, fx |-> <<>>]

\* The state reducer of the README: state => state.update('x', x => x + 1).
stateReducer(fn, state, action) ==
    CASE fn = "increase" -> StateMap(state.v[1] + 1, state.v[2])

\* wrapStateReducerToReducer(reducer)(coffects, action)
wrapStateReducerToReducer(fn, coffects, action) ==
    [state |-> fromJS(stateReducer(fn, coffects["state"], action)), fx |-> <<>>]

\* The reducers an application registers, called as fn(snapshots, action):
\*   increase  the README state reducer, wrapped by defineStateReducer
\*   sety      (snapshots, [_, p]) => ({ state: snapshots.state.set('y', p) })
\*   chain     () => ({ fx: [['log'], ['dispatch-sync', ['sety', 1]],
\*                           ['dispatch', [':increase', 0]]] })
\*   setlist   () => ({ state: [0] })
\*   listfx    () => ({ state: [0], fx: [['dispatch', [':increase', 0]]] })
\*   both      (snapshots, [_, p]) =>
\*                 ({ state: snapshots.state.set('y', p),
\*                    fx: [['log'], ['dispatch-sync', [':increase', 0]],
\*                         ['dispatch-later', ['sety', 0], Delay]] })
\*   two       (snapshots, [_, p]) =>
\*                 ({ state: snapshots.state.set('y', p),
\*                    fx: [['dispatch-sync', [':increase', 0]],
\*                         ['dispatch', ['sety', 1]],
\*                         ['dispatch-sync', ['sety', 0]]] })
reduce(fn, coffects, action) ==
    CASE fn = "increase" -> wrapStateReducerToReducer(fn, coffects, action)
      [] fn = "sety" ->
            [state |-> StateMap(coffects["state"].v[1], action.p), fx |-> <<>>]
      [] fn = "chain" ->
            [state |-> Undefined,
             fx |-> << Fx("log", Action("", 0), 0),
                       Fx("dispatch-sync", Action("sety", 1), 0),
                       Fx("dispatch", Action(":increase", 0), 0) >>]
      [] fn = "setlist" -> [state |-> JsArray(<<0>>), fx |-> <<>>]
      [] fn = "listfx" ->
            [state |-> JsArray(<<0>>),
             fx |-> << Fx("dispatch", Action(":increase", 0), 0) >>]
      [] fn = "both" ->
            [state |-> StateMap(coffects["state"].v[1], action.p),
             fx |-> << Fx("log", Action("", 0), 0),
                       Fx("dispatch-sync", Action(":increase", 0), 0),
                       Fx("dispatch-later", Action("sety", 0), Delay) >>]
      [] fn = "two" ->
            [state |-> StateMap(coffects["state"].v[1], action.p),
             fx |-> << Fx("dispatch-sync", Action(":increase", 0), 0),
                       Fx("dispatch", Action("sety", 1), 0),
                       Fx("dispatch-sync", Action("sety", 0), 0) >>]

\* context.mergeDeep(fromJS({ effects })): the keys the reducer returned,
\* converted by fromJS, replace those of context.effects, which no earlier
\* stage of the chains of this model has written.
mergeDeep(context, effects) ==
    [context EXCEPT !.effects =
        [state |-> IF effects.state # Undefined THEN fromJS(effects.state)
                   ELSE @.state,
         fx |-> IF effects.fx # <<>> THEN effects.fx ELSE @.fx]]

(***************************************************************************)
(* Interceptors and chains.  An interceptor is [id, before, after], the    *)
(* name of each stage function, "" when the interceptor has none.  A chain *)
(* is the list of the stage functions [id, phase, fn] defineReducer stores.*)
(***************************************************************************)
standardInterceptors ==
    << [id |-> "inject-state", before |-> "inject-state", after |-> ""],
       [id |-> "do-fx", before |-> "", after |-> "do-fx"] >>

\* Interceptors of the application: before adds an entry to the snapshots
\* of the context, after returns the context as it is.
I1 == [id |-> "I1", before |-> "mark", after |-> "pass"]
I2 == [id |-> "I2", before |-> "mark", after |-> "pass"]

wrapReducerToInterceptor(id, fn) == [id |-> id, before |-> fn, after |-> ""]

\* fetcher(id, ...params): the interceptor of a data source.
fetcher(id, params) ==
    [id |-> id, before |-> "fetch", after |-> "", params |-> params]

\* The fetcher functions an application registers, called as
\* fn(snapshots, ...params):
\*   xs   (snapshots, p) => [snapshots.get('state').get('x')]
applyFetcher(fn, coffects, params) ==
    CASE fn = "xs" -> JsArray(<<coffects["state"].v[1]>>)

\* A dataFetch that hands the parameters to the fetcher as they were given.
dataFetch_raw(m, coffects, id, params) ==
    [m |-> [m EXCEPT !.seen =
                Append(@, [who |-> "fetcher", id |-> id,
                           snapshots |-> coffects, params |-> params])],
     v |-> applyFetcher(fetchers[id], coffects, params)]

\* dataFetch(snapshots, id, params); m.seen records the arguments of the
\* call of the fetcher function.
dataFetch(m, coffects, id, params) ==
    LET args == [i \in 1..Len(params) |-> fromJS(params[i])]
    IN [m |-> [m EXCEPT !.seen =
                   Append(@, [who |-> "fetcher", id |-> id,
                              snapshots |-> coffects, params |-> args])],
        v |-> applyFetcher(fetchers[id], coffects, args)]

Reverse(s) == [i \in 1..Len(s) |-> s[Len(s) + 1 - i]]

\* The parameters an interceptor closes over: those of fetcher(id, ...params).
paramsOf(interceptor) ==
    IF "params" \in DOMAIN interceptor THEN interceptor.params ELSE <<>>

beforesOf(chain) ==
    LET sel == SelectSeq(chain, LAMBDA i : i.before # "")
    IN [j \in 1..Len(sel) |->
            [id |-> sel[j].id, phase |-> "before", fn |-> sel[j].before,
             params |-> paramsOf(sel[j])]]

aftersOf(chain) ==
    LET sel == SelectSeq(chain, LAMBDA i : i.after # "")
    IN [j \in 1..Len(sel) |->
            [id |-> sel[j].id, phase |-> "after", fn |-> sel[j].after,
             params |-> <<>>]]

\* A defineReducer that appends the after functions in declaration order.
defineReducer_forward(id, interceptors, reducer) ==
    LET chain == standardInterceptors \o interceptors
                    \o <<wrapReducerToInterceptor(id, reducer)>>
    IN beforesOf(chain) \o aftersOf(chain)

\* The chain defineReducer(id, interceptors, reducer) stores at reducers[id].
defineReducer(id, interceptors, reducer) ==
    LET chain == standardInterceptors \o interceptors
                    \o <<wrapReducerToInterceptor(id, reducer)>>
    IN beforesOf(chain) \o aftersOf(Reverse(chain))

defineStateReducer(id, reducer) == defineReducer(id, <<>>, reducer)

(***************************************************************************)
(* dispatchSync, dispatchLater, dispatch and the stage functions.  The     *)
(* record m also holds m.timers (the pending timers), m.trace (the stages  *)
(* run so far, each with the id of the action of its dispatch) and         *)
(* m.effects (the effects returned by the reducers run so far).            *)
(***************************************************************************)
RECURSIVE dispatchSync(_, _), runChain(_, _, _, _), runStage(_, _, _),
          doFx(_, _), performEach(_, _, _), perform(_, _)

\* A dispatchLater that runs the chain at once when the delay is 0.
dispatchLater_sync(m, action, ms) ==
    IF ms = 0 THEN dispatchSync(m, action)
    ELSE [m EXCEPT !.timers = Append(@, [action |-> action, ms |-> ms])]

\* A dispatchLater that sets two timers.
dispatchLater_twice(m, action, ms) ==
    [m EXCEPT !.timers = Append(Append(@, [action |-> action, ms |-> ms]),
                                [action |-> action, ms |-> ms])]

\* setTimeout(() => dispatchSync(action), ms)
dispatchLater(m, action, ms) ==
    [m EXCEPT !.timers = Append(@, [action |-> action, ms |-> ms])]

\* A dispatch that sets no timer when one is pending for the same action.
dispatch_coalesce(m, action) ==
    IF \E i \in 1..Len(m.timers) : m.timers[i].action = action
    THEN m
    ELSE dispatchLater(m, action, 0)

dispatch(m, action) == dispatchLater(m, action, 0)

\* A perform whose dispatch-sync performer schedules the dispatch.
perform_deferSync(m, entry) ==
    LET m0 == [m EXCEPT !.performed =
                   Append(@, [entry |-> entry, snap |-> m.snap,
                              at |-> Len(m.trace)])]
    IN CASE performers[entry.kind] = "dispatch-later" ->
               dispatchLater(m0, entry.action, entry.ms)
         [] OTHER -> dispatch(m0, entry.action)

\* A perform whose dispatch performer runs the chain at once.
perform_eager(m, entry) ==
    LET m0 == [m EXCEPT !.performed =
                   Append(@, [entry |-> entry, snap |-> m.snap,
                              at |-> Len(m.trace)])]
    IN CASE performers[entry.kind] = "dispatch-later" ->
               dispatchLater(m0, entry.action, entry.ms)
         [] OTHER -> dispatchSync(m0, entry.action)

\* performers[effect](...params) for the preset performers; m.performed
\* records the call with the cache it found and the number of the stages
\* that had started.
perform(m, entry) ==
    LET m0 == [m EXCEPT !.performed =
                   Append(@, [entry |-> entry, snap |-> m.snap,
                              at |-> Len(m.trace)])]
    IN CASE performers[entry.kind] = "dispatch" -> dispatch(m0, entry.action)
         [] performers[entry.kind] = "dispatch-later" ->
               dispatchLater(m0, entry.action, entry.ms)
         [] performers[entry.kind] = "dispatch-sync" ->
               dispatchSync(m0, entry.action)

performEach(m, fx, i) ==
    IF i > Len(fx) \/ m.thrown THEN m
    ELSE performEach(perform(m, fx[i]), fx, i + 1)

\* A do-fx that performs the fx entries before it resets the state.
doFx_fxFirst(m, context) ==
    LET state == context.effects.state
        fx == context.effects.fx
        m1 == performEach(m,
                  SelectSeq(fx, LAMBDA e : e.kind \in DOMAIN performers), 1)
    IN IF isMap(state) THEN reset(m1, "state", state) ELSE m1

\* A do-fx that performs the fx entries and never resets the state.
doFx_skipState(m, context) ==
    performEach(m, SelectSeq(context.effects.fx,
                             LAMBDA e : e.kind \in DOMAIN performers), 1)

\* The after function of do-fx.
doFx(m, context) ==
    LET state == context.effects.state
        m1 == IF isMap(state) THEN reset(m, "state", state) ELSE m
        fx == context.effects.fx
    IN performEach(m1,
                   SelectSeq(fx, LAMBDA e : e.kind \in DOMAIN performers), 1)

\* A stage function of the application that throws.
throwsStage(fn) == fn = "boom"

runStage(m, context, stage) ==
    LET m0 == [m EXCEPT !.trace =
                   Append(@, [action |-> context.action.id, id |-> stage.id,
                              phase |-> stage.phase])]
    IN CASE throwsStage(stage.fn) ->
                [m |-> Throw(m0), context |-> context]
         [] stage.fn = "inject-state" ->
                LET r == deref(m0, "state")
                IN [m |-> r.m,
                    context |-> [context EXCEPT !.snapshots =
                                    ("state" :> r.v) @@ @]]
         [] stage.fn = "do-fx" ->
                [m |-> doFx(m0, context), context |-> context]
         [] stage.fn = "mark" ->
                [m |-> m0,
                 context |-> [context EXCEPT !.snapshots =
                                 (stage.id :> Num(1)) @@ @]]
         [] stage.fn = "pass" ->
                [m |-> m0, context |-> context]
         [] stage.fn = "fetch" ->
                IF stage.id \notin DOMAIN fetchers
                THEN [m |-> Throw(m0), context |-> context]
                ELSE LET r == dataFetch(m0, context.snapshots, stage.id,
                                        stage.params)
                     IN [m |-> r.m,
                         context |-> [context EXCEPT !.snapshots =
                                         (stage.id :> fromJS(r.v)) @@ @]]
         [] OTHER ->
                LET effects == reduce(stage.fn, context.snapshots,
                                      context.action)
                IN [m |-> [m0 EXCEPT
                              !.effects = Append(@, effects),
                              !.seen = Append(@,
                                  [who |-> "reducer", id |-> stage.id,
                                   snapshots |-> context.snapshots,
                                   params |-> <<>>])],
                    context |-> mergeDeep(context, effects)]

\* A runChain that goes on with the next stage when a stage has thrown.
runChain_continue(m, context, chain, i) ==
    IF i > Len(chain) THEN m
    ELSE LET r == runStage(m, context, chain[i])
         IN runChain(r.m, r.context, chain, i + 1)

\* chain.reduce((context, reducer) => reducer(context), context), from i on.
runChain(m, context, chain, i) ==
    IF i > Len(chain) \/ m.thrown THEN m
    ELSE LET r == runStage(m, context, chain[i])
         IN runChain(r.m, r.context, chain, i + 1)

\* A dispatchSync whose context keeps the snapshot entry an interceptor of
\* an earlier dispatch wrote.
dispatchSync_keepContext(m, action) ==
    IF action.id \notin DOMAIN reducers
    THEN m
    ELSE runChain(m,
                  [snapshots |-> ("I2" :> Num(1)), effects |-> NoEffects,
                   action |-> action],
                  reducers[action.id], 1)

\* A dispatchSync that runs the standard interceptors when the action has no
\* registered chain.
dispatchSync_noGuard(m, action) ==
    runChain(m,
             [snapshots |-> <<>>, effects |-> NoEffects, action |-> action],
             IF action.id \in DOMAIN reducers THEN reducers[action.id]
             ELSE beforesOf(standardInterceptors)
                      \o aftersOf(Reverse(standardInterceptors)),
             1)

dispatchSync(m, action) ==
    IF action.id \notin DOMAIN reducers
    THEN m
    ELSE runChain(m,
                  [snapshots |-> <<>>, effects |-> NoEffects,
                   action |-> action],
                  reducers[action.id], 1)

(***************************************************************************)
(* The formulas an application registers: extractors over the paths x and  *)
(* y, transformers over them, and the observer formula of a view.          *)
(***************************************************************************)
Extractors ==
    { [id |-> "A", ups |-> <<"state">>, fn |-> "getx"],
      [id |-> "C", ups |-> <<"state">>, fn |-> "gety"] }

Transformers ==
    { [id |-> "B", ups |-> <<"A">>, fn |-> "first"],
      [id |-> "D", ups |-> <<"A", "B">>, fn |-> "eq"],
      [id |-> "E", ups |-> <<"C">>, fn |-> "first"] }

Views ==
    { [id |-> "V", ups |-> <<"A", "C">>, fn |-> "observe"] }

\* The reducers an application registers and the actions it dispatches.
Reducers ==
    { [id |-> ":increase", interceptors |-> <<>>, reducer |-> "increase"],
      [id |-> "sety", interceptors |-> <<I1, I2>>, reducer |-> "sety"],
      [id |-> "chain", interceptors |-> <<>>, reducer |-> "chain"],
      [id |-> "setlist", interceptors |-> <<>>, reducer |-> "setlist"] }

Actions ==
    {Action(":increase", 0), Action("chain", 0), Action("setlist", 0)}
        \cup {Action("sety", p) : p \in 0..MaxVal}

\* The reducers that return fx entries together with a state entry, and
\* the actions dispatched to them.
FxReducers ==
    { [id |-> "both", interceptors |-> <<>>, reducer |-> "both"],
      [id |-> "listfx", interceptors |-> <<>>, reducer |-> "listfx"] }

FxActions == {Action("both", 1), Action("listfx", 0)}

(***************************************************************************)
(* Initial state (lines 22-57 and the preset performers, lines 190-192).   *)
(***************************************************************************)
registry == [formulas |-> formulas, upstreams |-> upstreams,
             downstreams |-> downstreams]

machine == [snap |-> snapshots, calls |-> <<>>, timers |-> timers,
            trace |-> <<>>, effects |-> <<>>, performed |-> <<>>,
            seen |-> <<>>, resets |-> <<>>, stack |-> {},
            overflow |-> FALSE, thrown |-> FALSE]

\* The record of an operation that invokes nothing.
Op(op, id) ==
    [op |-> op, id |-> id, arg |-> Undefined, ret |-> Undefined,
     pre |-> snapshots,
     calls |-> <<>>, action |-> Action("", 0), trace |-> <<>>,
     effects |-> <<>>, performed |-> <<>>, seen |-> <<>>, resets |-> <<>>,
     overflow |-> FALSE, thrown |-> FALSE]

Init ==
    /\ snapshots = ("state" :> EmptyMap)
    /\ formulas = <<>>
    /\ upstreams = <<>>
    /\ downstreams = <<>>
    /\ reducers = <<>>
    /\ performers = ("dispatch" :> "dispatch")
                        @@ ("dispatch-later" :> "dispatch-later")
                        @@ ("dispatch-sync" :> "dispatch-sync")
    /\ fetchers = <<>>
    /\ timers = <<>>
    /\ nDefine = 0
    /\ nDelete = 0
    /\ late = FALSE
    /\ last = Op("init", "")

(***************************************************************************)
(* Operations of the formula cache.                                        *)
(***************************************************************************)
SetRegistry(g) ==
    /\ formulas' = g.formulas
    /\ upstreams' = g.upstreams
    /\ downstreams' = g.downstreams

Define(f) ==
    /\ nDefine < MaxDefine
    /\ nDefine' = nDefine + 1
    /\ SetRegistry(defineFormula(registry, f.id, f.ups, f.fn))
    /\ late' = (late \/ f.id \in DOMAIN snapshots)
    /\ last' = Op("define", f.id)
    /\ UNCHANGED <<snapshots, nDelete, dispatchVars>>

\* defineExtractor(id, ...path)
DefineExtractor == \E f \in Extractors : Define(f)

\* defineTransformer(id, upstreams, fn)
DefineTransformer == \E f \in Transformers : Define(f)

\* The effect of a mounted view: defineFormula(formulaId, formulaIds, ...)
MountView == \E f \in Views : Define(f)

\* deleteFormula(id): the cleanup of a view's effect, and the operation the
\* dependency graph offers for every registered formula.
DeleteFormula ==
    \E id \in DOMAIN upstreams :
        /\ nDelete < MaxDelete
        /\ nDelete' = nDelete + 1
        /\ SetRegistry(deleteFormula(registry, id))
        /\ last' = Op("delete", id)
        /\ UNCHANGED <<snapshots, nDefine, late, dispatchVars>>

\* The ids the downstream lists hold: every id that was ever registered.
Linked == UNION {{downstreams[u][i] : i \in 1..Len(downstreams[u])} :
                    u \in DOMAIN downstreams}

\* deref(id), for the ids the application knows: the formulas it registered
\* (those it deleted included) and the ids that have a cache entry.
Read ==
    \E id \in {"state"} \cup DOMAIN formulas \cup DOMAIN snapshots \cup Linked :
        LET r == deref(machine, id)
        IN /\ snapshots' = r.m.snap
           /\ last' = [Op("read", id) EXCEPT !.ret = r.v, !.calls = r.m.calls,
                                              !.overflow = r.m.overflow,
                                              !.thrown = r.m.thrown]
           /\ UNCHANGED <<graphVars, dispatchVars>>

\* PureFrameRoot({ state }): reset('state', fromJS(state))
ResetRoot ==
    \E s \in RootStates :
        LET m == reset(machine, "state", fromJS(s))
        IN /\ snapshots' = m.snap
           /\ last' = [Op("reset", "state") EXCEPT !.arg = fromJS(s),
                                                    !.calls = m.calls,
                                                    !.resets = m.resets,
                                                    !.overflow = m.overflow,
                                                    !.thrown = m.thrown]
           /\ UNCHANGED <<graphVars, dispatchVars>>

(***************************************************************************)
(* Operations of the dispatcher.                                           *)
(***************************************************************************)
\* defineReducer(id, interceptors, reducer) / defineStateReducer(id, reducer)
DefineReducer ==
    \E r \in Reducers :
        /\ reducers' = (r.id :> defineReducer(r.id, r.interceptors, r.reducer))
                            @@ reducers
        /\ last' = Op("defineReducer", r.id)
        /\ UNCHANGED <<snapshots, graphVars, performers, fetchers, timers>>

\* The root state holds both paths, as after PureFrameRoot({ state: {x, y} }).
Initialised == snapshots["state"] # EmptyMap

\* The result m of a dispatch stays within the bounds of the model.
WithinBounds(m) ==
    /\ m.snap["state"] \in RootStates
    /\ Len(m.timers) <= MaxTimers

Ran(op, action, m) ==
    /\ WithinBounds(m)
    /\ snapshots' = m.snap
    /\ timers' = m.timers
    /\ last' = [Op(op, action.id) EXCEPT !.action = action, !.calls = m.calls,
                                           !.trace = m.trace,
                                           !.effects = m.effects,
                                           !.performed = m.performed,
                                           !.seen = m.seen,
                                           !.resets = m.resets,
                                           !.thrown = m.thrown]
    /\ UNCHANGED <<graphVars, reducers, performers, fetchers>>

\* dispatchSync(action)
DispatchSync ==
    \E action \in Actions :
        /\ Initialised
        /\ Ran("dispatchSync", action, dispatchSync(machine, action))

\* The actions the application dispatches asynchronously.
AsyncActions == {Action(":increase", 0), Action("chain", 0)}

\* dispatch(action)
Dispatch ==
    \E action \in AsyncActions :
        Ran("dispatch", action, dispatch(machine, action))

\* The actions the application dispatches with a delay.
LaterActions == {Action("sety", p) : p \in 0..MaxVal}

\* dispatchLater(action, ms)
DispatchLater ==
    \E action \in LaterActions :
        Ran("dispatchLater", action, dispatchLater(machine, action, Delay))

\* A timer of setTimeout fires: a later call whose delay is smaller may fire
\* before an earlier one; calls of equal delay fire in the order of the calls.
TimerFireAt(j) ==
    /\ j \in 1..Len(timers)
    /\ \A i \in 1..(j - 1) : timers[i].ms > timers[j].ms
    /\ Initialised
    /\ LET rest == [i \in 1..(Len(timers) - 1) |->
                        IF i < j THEN timers[i] ELSE timers[i + 1]]
       IN Ran("timer", timers[j].action,
              dispatchSync([machine EXCEPT !.timers = rest],
                           timers[j].action))

TimerFire == \E j \in 1..Len(timers) : TimerFireAt(j)

(***************************************************************************)
(* Specifications.  Spec: the formula cache under defineFormula,           *)
(* deleteFormula, deref and reset.  SpecDispatch: the dispatcher over the  *)
(* extractors of the root state.                                           *)
(***************************************************************************)
Next ==
    \/ DefineExtractor
    \/ DefineTransformer
    \/ MountView
    \/ DeleteFormula
    \/ Read
    \/ ResetRoot

Spec == Init /\ [][Next]_vars

\* The state of an application that has registered its extractors when its
\* module was loaded: defineExtractor('A', 'x'); defineExtractor('C', 'y').
InitDispatch ==
    LET g0 == [formulas |-> <<>>, upstreams |-> <<>>, downstreams |-> <<>>]
        g1 == defineFormula(g0, "A", <<"state">>, "getx")
        g2 == defineFormula(g1, "C", <<"state">>, "gety")
    IN /\ snapshots = ("state" :> EmptyMap)
       /\ formulas = g2.formulas
       /\ upstreams = g2.upstreams
       /\ downstreams = g2.downstreams
       /\ reducers = <<>>
       /\ performers = ("dispatch" :> "dispatch")
                           @@ ("dispatch-later" :> "dispatch-later")
                           @@ ("dispatch-sync" :> "dispatch-sync")
       /\ fetchers = <<>>
       /\ timers = <<>>
       /\ nDefine = 2
       /\ nDelete = 0
       /\ late = FALSE
       /\ last = Op("init", "")

NextDispatch ==
    \/ Read
    \/ ResetRoot
    \/ DefineReducer
    \/ DispatchSync
    \/ Dispatch
    \/ DispatchLater
    \/ TimerFire

SpecDispatch == InitDispatch /\ [][NextDispatch]_vars

\* The same application with the reducers of ':increase' and 'sety'
\* registered when its module was loaded; it registers and dispatches the
\* reducers of FxReducers.
InitFx ==
    LET g0 == [formulas |-> <<>>, upstreams |-> <<>>, downstreams |-> <<>>]
        g1 == defineFormula(g0, "A", <<"state">>, "getx")
        g2 == defineFormula(g1, "C", <<"state">>, "gety")
    IN /\ snapshots = ("state" :> EmptyMap)
       /\ formulas = g2.formulas
       /\ upstreams = g2.upstreams
       /\ downstreams = g2.downstreams
       /\ reducers = (":increase" :> defineStateReducer(":increase", "increase"))
                         @@ ("sety" :> defineReducer("sety", <<I1, I2>>, "sety"))
       /\ performers = ("dispatch" :> "dispatch")
                           @@ ("dispatch-later" :> "dispatch-later")
                           @@ ("dispatch-sync" :> "dispatch-sync")
       /\ fetchers = <<>>
       /\ timers = <<>>
       /\ nDefine = 2
       /\ nDelete = 0
       /\ late = FALSE
       /\ last = Op("init", "")

DefineFxReducer ==
    \E r \in FxReducers :
        /\ reducers' = (r.id :> defineReducer(r.id, r.interceptors, r.reducer))
                            @@ reducers
        /\ last' = Op("defineReducer", r.id)
        /\ UNCHANGED <<snapshots, graphVars, performers, fetchers, timers>>

DispatchSyncFx ==
    \E action \in FxActions :
        /\ Initialised
        /\ Ran("dispatchSync", action, dispatchSync(machine, action))

DispatchFx ==
    \E action \in FxActions :
        Ran("dispatch", action, dispatch(machine, action))

NextFx ==
    \/ Read
    \/ ResetRoot
    \/ DefineFxReducer
    \/ DispatchSyncFx
    \/ DispatchFx
    \/ TimerFire

SpecFx == InitFx /\ [][NextFx]_vars

\* The scheduling of the dispatches of one action, 'sety', by an application
\* whose root state holds both paths: PureFrameRoot({ state: {x: 0, y: 0} }).
\* Every timer that was set fires: the event loop runs the callback of
\* every timer whose delay has passed.
TimedActions == {Action("sety", p) : p \in 0..MaxVal}

TimerValues == {[action |-> a, ms |-> ms] : a \in TimedActions, ms \in {0, Delay}}

InitTimers ==
    /\ snapshots = ("state" :> StateMap(0, 0))
    /\ formulas = <<>>
    /\ upstreams = <<>>
    /\ downstreams = <<>>
    /\ reducers = <<>>
    /\ performers = ("dispatch" :> "dispatch")
                        @@ ("dispatch-later" :> "dispatch-later")
                        @@ ("dispatch-sync" :> "dispatch-sync")
    /\ fetchers = <<>>
    /\ timers = <<>>
    /\ nDefine = 0
    /\ nDelete = 0
    /\ late = FALSE
    /\ last = Op("init", "")

DefineTimed ==
    /\ reducers' = ("sety" :> defineReducer("sety", <<>>, "sety"))
                        @@ reducers
    /\ last' = Op("defineReducer", "sety")
    /\ UNCHANGED <<snapshots, graphVars, performers, fetchers, timers>>

DispatchTimed ==
    \E action \in TimedActions :
        Ran("dispatch", action, dispatch(machine, action))

DispatchLaterTimed ==
    \E action \in TimedActions :
        Ran("dispatchLater", action, dispatchLater(machine, action, Delay))

\* The timer t fires.
Fire(t) == \E j \in 1..Len(timers) : timers[j] = t /\ TimerFireAt(j)

NextTimers ==
    \/ DefineTimed
    \/ DispatchTimed
    \/ DispatchLaterTimed
    \/ Read
    \/ TimerFire

SpecTimers ==
    /\ InitTimers
    /\ [][NextTimers]_vars
    /\ \A t \in TimerValues : WF_vars(Fire(t))

\* A data source: the fetcher F, and the reducer of 'fetchy', registered
\* with the interceptors [I1, fetcher('F', [1])].
Fetchers == { [id |-> "F", fn |-> "xs"] }

FetchParams == <<JsArray(<<1>>)>>

FetchReducers ==
    { [id |-> "fetchy",
       interceptors |-> <<I1, fetcher("F", FetchParams)>>,
       reducer |-> "sety"] }

FetchActions == {Action("fetchy", p) : p \in 0..MaxVal}

\* defineFetcher(id, fn)
DefineFetcher ==
    \E f \in Fetchers :
        /\ fetchers' = (f.id :> f.fn) @@ fetchers
        /\ last' = Op("defineFetcher", f.id)
        /\ UNCHANGED <<snapshots, graphVars, reducers, performers, timers>>

DefineFetchReducer ==
    \E r \in FetchReducers :
        /\ reducers' = (r.id :> defineReducer(r.id, r.interceptors, r.reducer))
                            @@ reducers
        /\ last' = Op("defineReducer", r.id)
        /\ UNCHANGED <<snapshots, graphVars, performers, fetchers, timers>>

DispatchSyncFetch ==
    \E action \in FetchActions :
        /\ Initialised
        /\ Ran("dispatchSync", action, dispatchSync(machine, action))

NextFetch ==
    \/ DefineFetcher
    \/ DefineFetchReducer
    \/ Read
    \/ ResetRoot
    \/ DispatchSyncFetch

SpecFetch == InitFx /\ [][NextFetch]_vars

\* Formulas whose function throws for some values of its upstream, and
\* reducers whose chain holds a stage that throws: the reducer itself, the
\* before function of an interceptor, the after function of an interceptor.
Throwers ==
    { [id |-> "T", ups |-> <<"A">>, fn |-> "failIfOne"],
      [id |-> "W", ups |-> <<"C">>, fn |-> "failIfOne"] }

IB == [id |-> "IB", before |-> "boom", after |-> ""]
IA == [id |-> "IA", before |-> "", after |-> "boom"]

ThrowReducers ==
    { [id |-> "badreducer", interceptors |-> <<>>, reducer |-> "boom"],
      [id |-> "badbefore", interceptors |-> <<I1, IB>>, reducer |-> "sety"],
      [id |-> "badafter", interceptors |-> <<I1, IA>>, reducer |-> "sety"] }

ThrowActions ==
    {Action(":increase", 0), Action("sety", 1), Action("badreducer", 0),
     Action("badbefore", 1), Action("badafter", 1)}

\* defineTransformer(id, upstreams, fn) for a function that can throw.
DefineThrower == \E f \in Throwers : Define(f)

DefineThrowReducer ==
    \E r \in ThrowReducers :
        /\ reducers' = (r.id :> defineReducer(r.id, r.interceptors, r.reducer))
                            @@ reducers
        /\ last' = Op("defineReducer", r.id)
        /\ UNCHANGED <<snapshots, graphVars, performers, fetchers, timers>>

DispatchSyncThrow ==
    \E action \in ThrowActions :
        /\ Initialised
        /\ Ran("dispatchSync", action, dispatchSync(machine, action))

NextThrow ==
    \/ DefineThrower
    \/ DefineThrowReducer
    \/ Read
    \/ ResetRoot
    \/ DispatchSyncThrow

SpecThrow == InitFx /\ [][NextThrow]_vars

(***************************************************************************)
(* Properties of the formula cache (checked under Spec).                   *)
(***************************************************************************)
Range(s) == {s[i] : i \in 1..Len(s)}

\* The number of invocations of the function of id in a list of calls.
Count(calls, id) == Cardinality({i \in 1..Len(calls) : calls[i].id = id})

\* The number of times e occurs in the list s.
Mult(s, e) == Cardinality({i \in 1..Len(s) : s[i] = e})

\* The parameters of the last invocation of id in a list of calls.
LastParams(calls, id) ==
    calls[CHOOSE i \in 1..Len(calls) :
            calls[i].id = id /\ \A j \in (i + 1)..Len(calls) : calls[j].id # id
         ].params

\* id and its transitive upstreams.
RECURSIVE UpClosure(_)
UpClosure(id) ==
    {id} \cup (IF id \in DOMAIN upstreams
               THEN UNION {UpClosure(u) : u \in Range(upstreams[id])}
               ELSE {})

\* The number of propagation paths from the root state to id: the paths
\* reset follows through the downstream lists and the registered formulas.
RECURSIVE NPaths(_), SumPaths(_, _)
SumPaths(id, U) ==
    IF U = {} THEN 0
    ELSE LET u == CHOOSE x \in U : TRUE
             k == Mult(downstreams[u], id)
         IN (IF k = 0 THEN 0
             ELSE IF u = "state" THEN k
             ELSE IF u \in DOMAIN formulas THEN k * NPaths(u)
             ELSE 0) + SumPaths(id, U \ {u})
NPaths(id) == SumPaths(id, DOMAIN downstreams)

\* The value the function of id returns for the cached values of its
\* upstreams.
Fresh(id) ==
    apply(formulas[id],
          [i \in 1..Len(upstreams[id]) |-> snapshots[upstreams[id][i]]])

\* The graph was built by defineFormula alone: each id defined once, none
\* deleted, and none defined when it already had a cache entry.
Built ==
    /\ nDelete = 0
    /\ ~late
    /\ nDefine = Cardinality(DOMAIN formulas)

IsFull(state) == state.k = "Map" /\ Len(state.v) = 2

\* C3: in a graph built by defineFormula alone, after every read and every
\* reset of the root state, each id that has a cache entry and a registered
\* formula holds the value its function returns for the cached values of its
\* upstreams (compared as immutable values).
C3_Convergence ==
    Built =>
        \A id \in DOMAIN formulas \cap DOMAIN snapshots :
            /\ Range(upstreams[id]) \subseteq DOMAIN snapshots
            /\ fromJS(snapshots[id]) = fromJS(Fresh(id))

\* The diamond D = eq(A, B), B = first(A) after a reset that recomputed D
\* twice, once for each of its changed upstreams.
C3_Witness ==
    /\ Built
    /\ last.op = "reset"
    /\ {"A", "B", "D"} \subseteq DOMAIN formulas
    /\ "D" \in DOMAIN snapshots
    /\ Count(last.calls, "D") = 2

\* C4: a reset of the root state to a value equal to the cached one invokes
\* no formula function and changes no cache entry.
C4_EqualityPruning ==
    (last.op = "reset" /\ last.pre["state"] = last.arg) =>
        /\ last.calls = <<>>
        /\ snapshots = last.pre

\* The same root state reset again, with the transformer B = first(A) cached.
C4_Witness ==
    /\ last.op = "reset"
    /\ last.pre["state"] = last.arg
    /\ IsFull(last.arg)
    /\ {"A", "B"} \subseteq DOMAIN formulas
    /\ "B" \in DOMAIN snapshots

\* C5: a read invokes only functions of ids that had no cache entry, each
\* once; a read of a cached id invokes nothing and returns the cached value;
\* a read changes no cache entry that existed and no operation removes one,
\* so that the reads between two changing resets invoke the function of an
\* id at most once in total.
C5_Memoization ==
    /\ DOMAIN last.pre \subseteq DOMAIN snapshots
    /\ last.op = "read" =>
        /\ \A i \in 1..Len(last.calls) :
              /\ last.calls[i].id \notin DOMAIN last.pre
              /\ Count(last.calls, last.calls[i].id) = 1
        /\ \A id \in DOMAIN last.pre : snapshots[id] = last.pre[id]
        /\ last.ret = snapshots[last.id]
        /\ last.id \in DOMAIN last.pre => last.calls = <<>>

\* The first read of the diamond D: A, B and D are each invoked once.
C5_Witness ==
    /\ last.op = "read"
    /\ last.id = "D"
    /\ Len(last.calls) = 3

\* A and C are the extractors of the paths x and y and no registered formula
\* is downstream of both.
IndependentAC ==
    /\ {"A", "C"} \subseteq DOMAIN formulas
    /\ formulas["A"] = "getx" /\ formulas["C"] = "gety"
    /\ \A id \in DOMAIN formulas : ~({"A", "C"} \subseteq UpClosure(id))

\* The last operation was a reset of the root state that changed the value
\* at x and left the value at y.
ChangedOnlyX ==
    /\ last.op = "reset"
    /\ IsFull(last.pre["state"]) /\ IsFull(last.arg)
    /\ last.pre["state"].v[1] # last.arg.v[1]
    /\ last.pre["state"].v[2] = last.arg.v[2]

\* The cache entry of C held the value at y before the last operation.
CurrentC ==
    /\ "C" \in DOMAIN last.pre
    /\ last.pre["C"] = getIn(last.pre["state"], 2)

\* C7 as stated: a reset that changes only x invokes no formula whose
\* upstream closure excludes A, the extractor C included.
C7_Original ==
    (IndependentAC /\ ChangedOnlyX /\ CurrentC) =>
        \A i \in 1..Len(last.calls) : "A" \in UpClosure(last.calls[i].id)

\* C7 as amended: a reset that changes only x invokes the function of C,
\* which lists the root state as its upstream, and C returns the value it
\* had; beyond C the reset invokes no formula whose upstream closure
\* excludes A, so no formula downstream of C only.
C7_SelectiveRecompute ==
    (IndependentAC /\ ChangedOnlyX /\ CurrentC) =>
        /\ \A i \in 1..Len(last.calls) :
              \/ last.calls[i].id = "C"
              \/ "A" \in UpClosure(last.calls[i].id)
        /\ Count(last.calls, "C") >= 1
        /\ snapshots["C"] = last.pre["C"]

\* x changed with E = first(C) registered and cached: C was invoked, E not.
C7_Witness ==
    /\ IndependentAC /\ ChangedOnlyX /\ CurrentC
    /\ "E" \in DOMAIN formulas /\ "E" \in DOMAIN last.pre
    /\ Count(last.calls, "C") = 1
    /\ Count(last.calls, "E") = 0

\* C8 as stated: a reset of the root state invokes the function of each
\* registered formula at most once, in every graph built by defineFormula
\* (here with every formula cached before the reset).
C8_Original ==
    (last.op = "reset" /\ Built /\ DOMAIN formulas \subseteq DOMAIN last.pre) =>
        \A id \in DOMAIN formulas : Count(last.calls, id) <= 1

\* C8 as amended: a reset of the root state invokes the function of a
\* registered formula at most once for each propagation path from the root
\* state to it (once more if it had no cache entry), so at most once in a
\* chain and possibly twice in a diamond; it invokes nothing when the root
\* state does not change.
C8_RecomputePerPath ==
    last.op = "reset" =>
        /\ \A id \in DOMAIN formulas :
              Count(last.calls, id) <=
                  NPaths(id) + (IF id \in DOMAIN last.pre THEN 0 ELSE 1)
        /\ last.pre["state"] = last.arg => last.calls = <<>>

\* A reset that changed x and y with the view V = observe(A, C) cached: V was
\* invoked twice, the transformer B = first(A) of a chain would be once.
C8_Witness ==
    /\ last.op = "reset" /\ Built
    /\ "V" \in DOMAIN formulas /\ "V" \in DOMAIN last.pre
    /\ NPaths("V") = 2
    /\ Count(last.calls, "V") = 2
    /\ Count(last.calls, "A") = 1

\* The parameters of call i are the values the cache holds for the upstreams
\* of its formula when the operation has returned.
UpToDate(params, id) ==
    \A k \in 1..Len(params) :
        /\ upstreams[id][k] \in DOMAIN snapshots
        /\ params[k] = snapshots[upstreams[id][k]]

\* C9 as stated: every formula function invoked during a reset receives the
\* values its upstreams hold when the reset returns.
C9_Original ==
    (last.op = "reset" /\ Built) =>
        \A i \in 1..Len(last.calls) :
            UpToDate(last.calls[i].params, last.calls[i].id)

\* C9 as amended: the last invocation of each formula function during a
\* reset receives the values its upstreams hold when the reset returns; an
\* earlier invocation of a formula with several upstreams can receive a mix
\* of new and stale values.
C9_LastCallFresh ==
    last.op = "reset" =>
        \A id \in {last.calls[i].id : i \in 1..Len(last.calls)} :
            UpToDate(LastParams(last.calls, id), id)

\* The view V = observe(A, C) after a reset that changed x and y: its first
\* invocation received the new A with the stale C, its last the new values.
C9_Witness ==
    /\ last.op = "reset" /\ Built
    /\ "V" \in DOMAIN formulas
    /\ Count(last.calls, "V") = 2
    /\ \E i \in 1..Len(last.calls) :
          /\ last.calls[i].id = "V"
          /\ last.calls[i].params[1] = snapshots["A"]
          /\ last.calls[i].params[2] = last.pre["C"]
          /\ last.calls[i].params[2] # snapshots["C"]

\* C10: deleteFormula(id) removes formulas[id] and upstreams[id] and removes
\* id from every downstream list, leaving the other entries in place.
C10_DeleteUnlinks ==
    [][last'.op = "delete" =>
        LET id == last'.id
        IN /\ formulas' = deleteKey(formulas, id)
           /\ upstreams' = deleteKey(upstreams, id)
           /\ DOMAIN downstreams' = DOMAIN downstreams
           /\ \A u \in DOMAIN downstreams :
                 downstreams'[u] = SelectSeq(downstreams[u], LAMBDA e : e # id)
      ]_vars

(***************************************************************************)
(* Properties of the dispatcher (checked under SpecDispatch).              *)
(***************************************************************************)
Stage(action, id, phase) == [action |-> action, id |-> id, phase |-> phase]

\* The stages of the dispatches of the action id, in the order they ran.
StagesOf(id) == SelectSeq(last.trace, LAMBDA e : e.action = id)

\* The effects with a state entry that the reducers of the last operation
\* returned, in the order the reducers ran.
StateEffects == SelectSeq(last.effects, LAMBDA e : e.state # Undefined)

C1_Expected ==
    << Stage("sety", "inject-state", "before"),
       Stage("sety", "I1", "before"),
       Stage("sety", "I2", "before"),
       Stage("sety", "sety", "before"),
       Stage("sety", "I2", "after"),
       Stage("sety", "I1", "after"),
       Stage("sety", "do-fx", "after") >>

\* C1: every dispatch of the action sety, registered with the interceptors
\* [I1, I2], runs inject-state.before, I1.before, I2.before, the reducer,
\* I2.after, I1.after, do-fx.after, each once and in this order.
C1_DispatchOrder ==
    last.op \in {"dispatchSync", "timer"} =>
        /\ StagesOf("sety") \in {<<>>, C1_Expected}
        /\ (last.action.id = "sety" /\ "sety" \in DOMAIN reducers) =>
              last.trace = C1_Expected

C1_Witness ==
    /\ last.op = "dispatchSync"
    /\ last.action.id = "sety"
    /\ last.trace = C1_Expected

MapEffects == SelectSeq(last.effects, LAMBDA e : isMap(fromJS(e.state)))

C6_Deferred ==
    /\ last.op \in {"dispatch", "dispatchLater"} =>
          /\ last.trace = <<>> /\ last.effects = <<>> /\ last.calls = <<>>
          /\ snapshots = last.pre
          /\ Len(timers) >= 1
          /\ timers[Len(timers)] =
                [action |-> last.action,
                 ms |-> IF last.op = "dispatch" THEN 0 ELSE Delay]
    /\ (last.op = "dispatchSync" /\ last.action.id \in DOMAIN reducers) =>
          LET chain == reducers[last.action.id]
          IN /\ Len(last.trace) >= Len(chain)
             /\ \A i \in 1..Len(chain) :
                   last.trace[i] =
                       Stage(last.action.id, chain[i].id, chain[i].phase)
             /\ Len(last.effects) >= 1
             /\ (Len(last.effects) = 1 /\ isMap(last.effects[1].state)) =>
                   snapshots["state"] = last.effects[1].state

\* dispatch of the registered increase action on an initialised root state:
\* the call has returned and x is what it was.
C6_Witness ==
    /\ last.op = "dispatch"
    /\ last.action.id = ":increase"
    /\ ":increase" \in DOMAIN reducers
    /\ IsFull(snapshots["state"])
    /\ snapshots["state"].v[1] < MaxVal

(***************************************************************************)
(* Deletion, redefinition and pruning (checked under Spec).                *)
(***************************************************************************)
\* id was registered and deleted: it has no function and the downstream
\* list of an upstream still holds it.
Deleted(id) == id \notin DOMAIN formulas /\ id \in Linked

\* C11 as stated: a read of a deleted formula returns null, whether or not
\* it had a cache entry.
C11_Original ==
    (last.op = "read" /\ Deleted(last.id)) => last.ret = Null

\* C11 as amended: a read of a deleted formula returns its cache entry when
\* it has one and null (which it caches) when it has none; no read and no
\* reset invokes the function of an id that has no registered formula, and
\* a reset leaves the cache entry of a deleted formula as it was.
C11_DeletionSafety ==
    /\ \A i \in 1..Len(last.calls) : last.calls[i].id \in DOMAIN formulas
    /\ (last.op = "read" /\ Deleted(last.id)) =>
          /\ last.ret = (IF last.id \in DOMAIN last.pre
                         THEN last.pre[last.id] ELSE Null)
          /\ snapshots[last.id] = last.ret
    /\ last.op = "reset" =>
          \A id \in DOMAIN last.pre : Deleted(id) => snapshots[id] = last.pre[id]

\* B was deleted before it was read; the first read of D = eq(A, B) resolves
\* B to null.
C11_Witness ==
    /\ last.op = "read" /\ last.id = "D"
    /\ "D" \in DOMAIN formulas
    /\ Deleted("B")
    /\ "B" \notin DOMAIN last.pre
    /\ snapshots["B"] = Null
    /\ Count(last.calls, "D") = 1

KnownFx(fx) == SelectSeq(fx, LAMBDA e : e.kind \in DOMAIN performers)

\* The last operation ran the chain of its action.
RanChain ==
    /\ last.op \in {"dispatchSync", "timer"}
    /\ last.action.id \in DOMAIN reducers

ChainStages(id) ==
    [i \in 1..Len(reducers[id]) |->
        Stage(id, reducers[id][i].id, reducers[id][i].phase)]

\* The stages of the chains the dispatch-sync entries among the first n
\* entries of fx run.
RECURSIVE NestedStages(_, _)
NestedStages(fx, n) ==
    IF n = 0 THEN <<>>
    ELSE NestedStages(fx, n - 1)
            \o (IF performers[fx[n].kind] = "dispatch-sync"
                    /\ fx[n].action.id \in DOMAIN reducers
                THEN ChainStages(fx[n].action.id) ELSE <<>>)

\* C14 as stated: the stages that run between the start and the end of a
\* dispatch are the stages of its own chain.
C14_Original ==
    RanChain => last.trace = ChainStages(last.action.id)

\* C14 as amended: every stage of the chain of a dispatch has started before
\* a stage of another chain runs, and the dispatches of the timers and of
\* the performers dispatch and dispatch-later run no stage inside it; the
\* performer dispatch-sync runs the whole chain of its action inside the
\* do-fx stage, the last stage of the dispatch that returned the entry,
\* which performs its later fx entries after the nested chain has ended.
C14_RunToCompletion ==
    RanChain =>
        LET own == ChainStages(last.action.id)
            fx == KnownFx(last.effects[1].fx)
        IN /\ last.trace = own \o NestedStages(fx, Len(fx))
           /\ Len(last.performed) = Len(fx)
           /\ \A i \in 1..Len(last.performed) :
                 last.performed[i].at = Len(own) + Len(NestedStages(fx, i - 1))

\* 'both': the three stages of ':increase' ran inside the do-fx stage of
\* 'both', which then performed its dispatch-later entry.
C14_Witness ==
    /\ RanChain /\ last.action.id = "both"
    /\ Len(ChainStages("both")) = 3
    /\ Len(last.trace) = 6
    /\ Len(last.performed) = 2
    /\ last.performed[2].entry.kind = "dispatch-later"
    /\ last.performed[2].at = 6

(***************************************************************************)
(* Exceptions (checked under SpecThrow).                                   *)
(***************************************************************************)
\* The formula whose function threw: the last one invoked.
Failing == last.calls[Len(last.calls)].id

\* The last operation reset the root state, directly or from do-fx, and a
\* formula function threw during the propagation.
ThrewInReset ==
    /\ last.thrown /\ last.calls # <<>>
    /\ \/ last.op = "reset"
       \/ /\ last.op = "dispatchSync"
          /\ last.trace[Len(last.trace)].id = "do-fx"

\* The value the last operation handed to reset('state', ...).
NewState ==
    IF last.op = "reset" THEN last.arg
    ELSE last.effects[Len(last.effects)].state

\* The cache entry of id is what it was before the last operation.
Kept(id) ==
    IF id \in DOMAIN last.pre
    THEN id \in DOMAIN snapshots /\ snapshots[id] = last.pre[id]
    ELSE id \notin DOMAIN snapshots

\* C15 as stated: when a formula function throws during the propagation of
\* a reset of the root state, the root state and the failing formula hold
\* the values they had before the call.
C15_Original ==
    ThrewInReset => Kept("state") /\ Kept(Failing)

\* C15 as amended: the exception reaches the caller; the root state holds
\* the new value, which reset wrote before it propagated, and so does every
\* formula recomputed before the failure; the failing formula and the
\* formulas not reached yet hold the values they had.
C15_PartialCommit ==
    ThrewInReset =>
        /\ snapshots["state"] = NewState
        /\ snapshots["state"] # last.pre["state"]
        /\ Kept(Failing)
        /\ \A id \in DOMAIN formulas :
              Count(last.calls, id) = 0 => Kept(id)
        /\ \A i \in 1..(Len(last.calls) - 1) :
              snapshots[last.calls[i].id] = Fresh(last.calls[i].id)

\* T = failIfOne(A) threw in a reset that changed x and y: the root state
\* and A are new, T and the extractor C hold the values of the old state.
C15_Witness ==
    /\ ThrewInReset /\ last.op = "reset"
    /\ Failing = "T"
    /\ "T" \in DOMAIN last.pre /\ "C" \in DOMAIN last.pre
    /\ snapshots["A"] = Num(1)
    /\ snapshots["T"] = Num(0)
    /\ snapshots["C"] # getIn(snapshots["state"], 2)

\* C18: when the reducer or a stage function of an interceptor of the
\* application throws during dispatchSync, the exception reaches the
\* caller, the stages that ran are those of the chain up to the one that
\* threw, no cache entry has changed, no formula function and no performer
\* was invoked and no dispatch was scheduled.
C18_StageThrows ==
    [][(last'.op = "dispatchSync" /\ last'.action.id \in DOMAIN reducers) =>
          LET chain == reducers[last'.action.id]
          IN \A k \in 1..Len(chain) :
                (Len(last'.trace) >= k /\ throwsStage(chain[k].fn)) =>
                    /\ last'.thrown
                    /\ k < Len(chain)
                    /\ last'.trace = SubSeq(ChainStages(last'.action.id), 1, k)
                    /\ snapshots' = snapshots
                    /\ timers' = timers
                    /\ last'.calls = <<>> /\ last'.performed = <<>>
      ]_vars

\* The after function of the interceptor IA threw after the reducer had
\* returned a state entry: do-fx did not run and the root state is as it
\* was.
C18_Witness ==
    /\ last.op = "dispatchSync" /\ last.thrown
    /\ last.action.id = "badafter"
    /\ last.trace[Len(last.trace)] = Stage("badafter", "IA", "after")
    /\ Len(last.effects) = 1
    /\ isMap(last.effects[1].state)
    /\ last.effects[1].state # snapshots["state"]

(***************************************************************************)
(* Scheduled dispatches (checked under SpecTimers).                        *)
(***************************************************************************)
\* The list s without its element j.
Without(s, j) ==
    [i \in 1..(Len(s) - 1) |-> IF i < j THEN s[i] ELSE s[i + 1]]

\* A dispatch of the action a is waiting for its timer.
Pending(a) == \E i \in 1..Len(timers) : timers[i].action = a

\* C16: a dispatch / dispatchLater call sets one timer and runs no stage;
\* no other step than the firing of a timer removes a timer, and the firing
\* removes that one timer and runs dispatchSync of its action once, with the
\* chain registered for the action at that time (no stage when there is
\* none); every timer that was set eventually fires.
C16_ExactlyOnce ==
    /\ [][/\ last'.op \in {"dispatch", "dispatchLater"} =>
                /\ timers' = Append(timers,
                                    [action |-> last'.action,
                                     ms |-> IF last'.op = "dispatch"
                                            THEN 0 ELSE Delay])
                /\ last'.trace = <<>>
          /\ last'.op = "timer" =>
                /\ \E j \in 1..Len(timers) :
                      /\ timers[j].action = last'.action
                      /\ timers' = Without(timers, j)
                /\ last'.trace =
                      IF last'.action.id \in DOMAIN reducers
                      THEN ChainStages(last'.action.id) ELSE <<>>
          /\ last'.op \notin {"dispatch", "dispatchLater", "timer"} =>
                timers' = timers
         ]_vars
    /\ \A a \in TimedActions :
          Pending(a) ~> (last.op = "timer" /\ last.action = a)

\* The timer of ['sety', 1] fired and ran the chain of 'sety' while another
\* dispatch was still waiting.
C16_Witness ==
    /\ last.op = "timer"
    /\ last.action = Action("sety", 1)
    /\ "sety" \in DOMAIN reducers
    /\ last.trace = ChainStages("sety")
    /\ snapshots["state"] = StateMap(0, 1)
    /\ timers # <<>>

(***************************************************************************)
(* Fetchers (checked under SpecFetch).                                     *)
(***************************************************************************)
\* The last operation ran the chain of 'fetchy' with the fetcher F
\* registered.
Fetched ==
    /\ last.op = "dispatchSync" /\ last.action.id = "fetchy"
    /\ "fetchy" \in DOMAIN reducers /\ "F" \in DOMAIN fetchers

\* The snapshots of the context when the before function of the fetcher
\* runs: the root state and the entry of the interceptor I1.
FetchSnapshots == ("I1" :> Num(1)) @@ ("state" :> last.pre["state"])

\* C17 as stated: the fetcher function receives the parameters as they were
\* given to fetcher(id, ...) and the reducer finds the result of the fetcher
\* function at snapshots[id].
C17_Original ==
    Fetched =>
        /\ last.seen[1].params = FetchParams
        /\ last.seen[2].snapshots["F"] =
               applyFetcher(fetchers["F"], FetchSnapshots, FetchParams)

\* C17 as amended: on every dispatch the fetcher function is called once,
\* after inject-state and the before function of I1 and before the reducer,
\* with the snapshots of the context and each parameter converted by fromJS;
\* the reducer then finds at snapshots[id] the result converted by fromJS,
\* next to snapshots.state and the entry of I1.
C17_Fetcher ==
    Fetched =>
        LET args == [i \in 1..Len(FetchParams) |-> fromJS(FetchParams[i])]
            result == applyFetcher(fetchers["F"], FetchSnapshots, args)
        IN /\ last.trace = ChainStages("fetchy")
           /\ Len(last.seen) = 2
           /\ last.seen[1] = [who |-> "fetcher", id |-> "F",
                              snapshots |-> FetchSnapshots, params |-> args]
           /\ last.seen[2] = [who |-> "reducer", id |-> "fetchy",
                              snapshots |-> ("F" :> fromJS(result))
                                                @@ FetchSnapshots,
                              params |-> <<>>]

\* A dispatch of 'fetchy' with x = 1: the fetcher received the list made of
\* the array [1] and the reducer found the list made of the result [1].
C17_Witness ==
    /\ Fetched
    /\ last.pre["state"] = StateMap(1, 0)
    /\ last.seen[1].params = <<ImList(<<1>>)>>
    /\ last.seen[2].snapshots["F"] = ImList(<<1>>)
    /\ snapshots["state"] = StateMap(1, 1)

(***************************************************************************)
(* SpecGraph: an application whose transformers return structured values   *)
(* and which registers some of its formulas more than once.                *)
(***************************************************************************)
\* defineFormula calls of SpecGraph after the two extractors.
MaxRedefine == 3

\* L returns a plain array, K an Immutable.List; M is registered over L and
\* registered again over K.
Structured ==
    { [id |-> "L", ups |-> <<"A", "C">>, fn |-> "wrapFirst"],
      [id |-> "K", ups |-> <<"A", "C">>, fn |-> "listFirst"],
      [id |-> "M", ups |-> <<"L">>, fn |-> "first"],
      [id |-> "M", ups |-> <<"K">>, fn |-> "first"] }

\* defineTransformer(id, upstreams, fn), for an id registered or not.
DefineStructured ==
    \E f \in Structured :
        /\ nDefine < 2 + MaxRedefine
        /\ nDefine' = nDefine + 1
        /\ SetRegistry(defineFormula(registry, f.id, f.ups, f.fn))
        /\ late' = (late \/ f.id \in DOMAIN snapshots)
        /\ last' = Op("define", f.id)
        /\ UNCHANGED <<snapshots, nDelete, dispatchVars>>

NextGraph ==
    \/ DefineStructured
    \/ Read
    \/ ResetRoot

SpecGraph == InitDispatch /\ [][NextGraph]_vars

(***************************************************************************)
(* C19.  Propagation stops at an unchanged node.                           *)
(***************************************************************************)
\* Deep value equality of two values: the equality of their contents,
\* whichever representation (plain or immutable) holds them.
deepEqual(a, b) == fromJS(a) = fromJS(b)

\* The calls reset(d, compute(d)) of the last operation for a downstream
\* formula d that had a cache entry deeply equal to the fresh value.
Unchanged ==
    {k \in 1..Len(last.resets) :
        /\ last.resets[k].id # "state"
        /\ last.resets[k].had
        /\ deepEqual(last.resets[k].origin, last.resets[k].newValue)}

\* C19: during the propagation of a reset, a downstream formula whose fresh
\* value is deeply equal to its cache entry has its entry not rewritten and
\* none of its downstream formulas invoked, whatever structured value the
\* formula returns.
C19_StopsAtUnchanged ==
    last.op = "reset" =>
        \A k \in Unchanged :
            ~last.resets[k].wrote /\ ~last.resets[k].invoked

\* What the code does for the values immutable's is can compare: the
\* pruning holds when the fresh value is a primitive or an immutable
\* collection.
C19_StopsAtUnchangedImmutable ==
    last.op = "reset" =>
        \A k \in Unchanged :
            last.resets[k].newValue.k # "Array" =>
                ~last.resets[k].wrote /\ ~last.resets[k].invoked

\* L was cached by a first read as the List [0]; a reset that changes y only
\* recomputes L to the array [0], rewrites its entry and invokes M.
C19_Failing ==
    /\ last.op = "reset"
    /\ "L" \in DOMAIN last.pre
    /\ last.pre["L"] = ImList(<<0>>)
    /\ snapshots["L"] = JsArray(<<0>>)
    /\ \E i \in 1..Len(last.calls) : last.calls[i].id = "M"

(***************************************************************************)
(* C20.  The downstream map is the inverse of the upstream map.            *)
(***************************************************************************)
\* The number of occurrences of e in the list s.
Occurrences(s, e) == Cardinality({i \in 1..Len(s) : s[i] = e})

IsUpstream(u, id) ==
    id \in DOMAIN upstreams /\ \E i \in 1..Len(upstreams[id]) : upstreams[id][i] = u

\* C20: after any sequence of defineFormula calls, redefinitions included
\* (and no deleteFormula call), id occurs in downstreams[u] exactly once if
\* u is an upstream of id and not at all otherwise.
C20_InverseMaps ==
    nDelete = 0 =>
        \A u \in DOMAIN downstreams : \A id \in DOMAIN upstreams \cup Linked :
            Occurrences(downstreams[u], id) = IF IsUpstream(u, id) THEN 1 ELSE 0

\* M was registered over L and then over K: L keeps the stale link to M.
C20_StaleLink ==
    /\ nDelete = 0
    /\ "M" \in DOMAIN upstreams /\ upstreams["M"] = <<"K">>
    /\ "L" \in DOMAIN downstreams /\ Occurrences(downstreams["L"], "M") > 0

\* M was registered twice over K: K lists M twice and a change of K
\* invokes M's function twice.
C20_Twice ==
    /\ nDelete = 0
    /\ "K" \in DOMAIN downstreams /\ Occurrences(downstreams["K"], "M") = 2
    /\ last.op = "reset"
    /\ Count(last.calls, "K") = 1
    /\ Count(last.calls, "M") = 2

(***************************************************************************)
(* C21.  The frame of defineFormula.                                       *)
(***************************************************************************)
\* The ids of the list ups.
Elems(ups) == {ups[i] : i \in 1..Len(ups)}

\* The list downs[u], empty when u has none.
ListOf(downs, u) == IF u \in DOMAIN downs THEN downs[u] ELSE <<>>

\* C21: defineFormula(id, upstreams, fn) invokes no formula function and
\* leaves every cache entry as it was, the entry of id included; it sets the
\* formula and the upstream list of id, appends id to the downstream list of
\* each listed upstream and changes nothing else.
C21_DefineFrame ==
    [][last'.op = "define" =>
        \E f \in Structured :
            /\ f.id = last'.id
            /\ snapshots' = snapshots
            /\ last'.calls = <<>>
            /\ formulas' = (f.id :> f.fn) @@ formulas
            /\ upstreams' = (f.id :> f.ups) @@ upstreams
            /\ DOMAIN downstreams' = DOMAIN downstreams \cup Elems(f.ups)
            /\ \A u \in DOMAIN downstreams' :
                   downstreams'[u] =
                       ListOf(downstreams, u)
                           \o [i \in 1..Occurrences(f.ups, u) |-> f.id]
            /\ UNCHANGED dispatchVars]_vars

\* M, registered over L and cached, was registered again over K: its cache
\* entry is the one the read left.
C21_Witness ==
    /\ last.op = "define" /\ last.id = "M"
    /\ late
    /\ "M" \in DOMAIN snapshots /\ "M" \in DOMAIN last.pre
    /\ snapshots["M"] = last.pre["M"]
    /\ upstreams["M"] = <<"K">>
    /\ "L" \in DOMAIN downstreams /\ Occurrences(downstreams["L"], "M") > 0

(***************************************************************************)
(* SpecCount: an application that dispatches the action of one state       *)
(* reducer, the README's ':increase', in the three modes, over a root      *)
(* state {x: 0, y: 0} and the extractor A.                                 *)
(***************************************************************************)
\* Dispatches of ':increase' issued in a behaviour of SpecCount.
MaxIssued == 3

CountAction == Action(":increase", 0)

InitCount ==
    LET g0 == [formulas |-> <<>>, upstreams |-> <<>>, downstreams |-> <<>>]
        g1 == defineFormula(g0, "A", <<"state">>, "getx")
    IN /\ snapshots = ("state" :> StateMap(0, 0))
       /\ formulas = g1.formulas
       /\ upstreams = g1.upstreams
       /\ downstreams = g1.downstreams
       /\ reducers = (":increase" :> defineStateReducer(":increase", "increase"))
       /\ performers = ("dispatch" :> "dispatch")
                           @@ ("dispatch-later" :> "dispatch-later")
                           @@ ("dispatch-sync" :> "dispatch-sync")
       /\ fetchers = <<>>
       /\ timers = <<>>
       /\ nDefine = 1
       /\ nDelete = 0
       /\ late = FALSE
       /\ last = Op("init", "")

\* The dispatches that have run (the root state counts them) and those that
\* are scheduled.
Issued(snap, pending) == snap["state"].v[1] + Len(pending)

CountRan(op, m) ==
    /\ Issued(m.snap, m.timers) <= MaxIssued
    /\ snapshots' = m.snap
    /\ timers' = m.timers
    /\ last' = [Op(op, CountAction.id) EXCEPT !.action = CountAction,
                                               !.calls = m.calls,
                                               !.trace = m.trace,
                                               !.effects = m.effects,
                                               !.performed = m.performed,
                                               !.seen = m.seen,
                                               !.resets = m.resets,
                                               !.thrown = m.thrown]
    /\ UNCHANGED <<graphVars, reducers, performers, fetchers>>

CountDispatchSync == CountRan("dispatchSync", dispatchSync(machine, CountAction))

CountDispatch == CountRan("dispatch", dispatch(machine, CountAction))

CountDispatchLater ==
    CountRan("dispatchLater", dispatchLater(machine, CountAction, Delay))

\* A timer fires, in any order the delays allow.
CountFire ==
    \E j \in 1..Len(timers) :
        /\ \A i \in 1..(j - 1) : timers[i].ms > timers[j].ms
        /\ LET rest == [i \in 1..(Len(timers) - 1) |->
                            IF i < j THEN timers[i] ELSE timers[i + 1]]
           IN CountRan("timer",
                       dispatchSync([machine EXCEPT !.timers = rest],
                                    timers[j].action))

NextCount ==
    \/ CountDispatchSync
    \/ CountDispatch
    \/ CountDispatchLater
    \/ CountFire
    \/ Read

SpecCount == InitCount /\ [][NextCount]_vars

SagaReducers ==
    FxReducers \cup { [id |-> "two", interceptors |-> <<I1>>, reducer |-> "two"] }

SagaActions == FxActions \cup {Action("two", 1)}

DefineSagaReducer ==
    \E r \in SagaReducers :
        /\ reducers' = (r.id :> defineReducer(r.id, r.interceptors, r.reducer))
                            @@ reducers
        /\ last' = Op("defineReducer", r.id)
        /\ UNCHANGED <<snapshots, graphVars, performers, fetchers, timers>>

DispatchSyncSaga ==
    \E action \in SagaActions :
        /\ Initialised
        /\ Ran("dispatchSync", action, dispatchSync(machine, action))

DispatchSaga ==
    \E action \in SagaActions :
        Ran("dispatch", action, dispatch(machine, action))

NextSaga ==
    \/ Read
    \/ ResetRoot
    \/ DefineSagaReducer
    \/ DispatchSyncSaga
    \/ DispatchSaga
    \/ TimerFire

SpecSaga == InitFx /\ [][NextSaga]_vars

(***************************************************************************)
(* C23.  Action chaining through the preset performers.                    *)
(***************************************************************************)
\* The entry runs a chain at once / sets a timer.
SyncEntry(e) ==
    performers[e.kind] = "dispatch-sync" /\ e.action.id \in DOMAIN reducers

AsyncEntry(e) == performers[e.kind] \in {"dispatch", "dispatch-later"}

\* The number of the entries among the first n of fx that run a chain.
SyncBefore(fx, n) == Cardinality({j \in 1..n : SyncEntry(fx[j])})

\* The timer an asynchronous entry sets.
TimerOf(e) ==
    [action |-> e.action, ms |-> IF performers[e.kind] = "dispatch" THEN 0 ELSE e.ms]

\* C23 as stated: the reducer of every dispatch-sync entry receives in
\* snapshots.state the state the dispatch that returned the entry wrote.
C23_Original ==
    RanChain =>
        LET D == last.effects[1]
            fx == KnownFx(D.fx)
        IN \A i \in 1..Len(fx) :
              (SyncEntry(fx[i]) /\ isMap(fromJS(D.state))) =>
                  last.seen[1 + SyncBefore(fx, i)].snapshots["state"]
                      = fromJS(D.state)

\* C23 as amended: the performers are invoked in the order of the entries;
\* a dispatch-sync entry runs the whole chain of its action after the
\* entries before it were performed and before the next one is, and its
\* reducer receives the root state of the moment the entry is performed,
\* which is the state the outer dispatch wrote only when no earlier
\* dispatch-sync entry has run; a dispatch or dispatch-later entry sets a
\* timer and runs no stage.
C23_Chaining ==
    RanChain =>
        LET own == ChainStages(last.action.id)
            D == last.effects[1]
            fx == KnownFx(D.fx)
            P == last.performed
            asyncs == SelectSeq(fx, AsyncEntry)
        IN /\ Len(P) = Len(fx)
           /\ \A i \in 1..Len(fx) :
                 /\ P[i].entry = fx[i]
                 /\ P[i].at = Len(own) + Len(NestedStages(fx, i - 1))
                 /\ SyncEntry(fx[i]) =>
                       LET nested == ChainStages(fx[i].action.id)
                           s == 1 + SyncBefore(fx, i)
                       IN /\ SubSeq(last.trace, P[i].at + 1,
                                    P[i].at + Len(nested)) = nested
                          /\ last.seen[s].id = fx[i].action.id
                          /\ last.seen[s].snapshots["state"]
                                 = P[i].snap["state"]
                          /\ (SyncBefore(fx, i - 1) = 0
                                  /\ isMap(fromJS(D.state))) =>
                                P[i].snap["state"] = fromJS(D.state)
           /\ Len(last.trace) = Len(own) + Len(NestedStages(fx, Len(fx)))
           /\ Len(timers) >= Len(asyncs)
           /\ SubSeq(timers, Len(timers) - Len(asyncs) + 1, Len(timers))
                  = [j \in 1..Len(asyncs) |-> TimerOf(asyncs[j])]

\* 'two' ran over {x: 0, y: 0}: ':increase' received the state {x: 0, y: 1}
\* that 'two' wrote, 'sety' received {x: 1, y: 1}, the state ':increase'
\* wrote, and the dispatch entry between them left a timer.
C23_Witness ==
    /\ RanChain /\ last.action.id = "two"
    /\ last.pre["state"] = StateMap(0, 0)
    /\ Len(last.seen) = 3
    /\ last.seen[2].snapshots["state"] = StateMap(0, 1)
    /\ last.seen[3].snapshots["state"] = StateMap(1, 1)
    /\ snapshots["state"] = StateMap(1, 0)
    /\ timers # <<>> /\ timers[Len(timers)].action = Action("sety", 1)

(***************************************************************************)
(* C24.  Context isolation (checked under SpecSaga).                       *)
(***************************************************************************)
\* The actions whose chains the last operation ran: its own and those of
\* the dispatch-sync entries it returned, in the order they ran.
ChainsRun ==
    LET syncs == SelectSeq(KnownFx(last.effects[1].fx), SyncEntry)
    IN <<last.action>> \o [j \in 1..Len(syncs) |-> syncs[j].action]

\* The reducer function of the chain registered for the action id.
ReducerOf(id) ==
    LET k == CHOOSE k \in 1..Len(reducers[id]) : reducers[id][k].id = id
    IN reducers[id][k].fn

\* The ids of the interceptors of the chain of id that write a snapshot entry.
Marks(id) ==
    {reducers[id][k].id :
        k \in {k \in 1..Len(reducers[id]) : reducers[id][k].fn = "mark"}}

\* The values handed to reset('state', ...) by the last operation.
StateResets ==
    LET sel == SelectSeq(last.resets, LAMBDA e : e.id = "state")
    IN [j \in 1..Len(sel) |-> sel[j].newValue]

MaxCyclic == 3

Cyclic ==
    { [id |-> "S", ups |-> <<"S">>, fn |-> "first"],
      [id |-> "X", ups |-> <<"Y">>, fn |-> "first"],
      [id |-> "Y", ups |-> <<"X">>, fn |-> "first"],
      [id |-> "Y", ups |-> <<"A">>, fn |-> "first"] }

DefineCyclic ==
    \E f \in Cyclic :
        /\ nDefine < 2 + MaxCyclic
        /\ nDefine' = nDefine + 1
        /\ SetRegistry(defineFormula(registry, f.id, f.ups, f.fn))
        /\ late' = (late \/ f.id \in DOMAIN snapshots)
        /\ last' = Op("define", f.id)
        /\ UNCHANGED <<snapshots, nDelete, dispatchVars>>

NextCycle ==
    \/ DefineCyclic
    \/ Read
    \/ ResetRoot

SpecCycle == InitDispatch /\ [][NextCycle]_vars

(***************************************************************************)
(* C25.  Termination.                                                      *)
(***************************************************************************)
\* The upstreams of id that have no entry in the cache snap: those a
\* computation of id enters.
Entered(id, snap) ==
    IF id \in DOMAIN upstreams THEN Elems(upstreams[id]) \ DOMAIN snap ELSE {}

\* The ids reachable from the ids of S through uncached upstreams.
RECURSIVE Closure(_, _)
Closure(S, snap) ==
    LET T == S \cup UNION {Entered(n, snap) : n \in S}
    IN IF T = S THEN S ELSE Closure(T, snap)

\* A cycle of uncached ids is reachable from the uncached id.
OpenCycle(id, snap) ==
    /\ id \notin DOMAIN snap
    /\ \E n \in Closure({id}, snap) : n \in Closure(Entered(n, snap), snap)

\* The upstreams of id transitively include id.
OnCycle(id) == id \in Closure(Entered(id, <<>>), <<>>)

\* The upstream map has no cycle.
Acyclic == \A id \in DOMAIN upstreams : ~OnCycle(id)

C25_Overflow ==
    /\ last.op = "read" /\ last.id = "X"
    /\ "Y" \notin DOMAIN last.pre
    /\ last.overflow

====
